---- MODULE Spec2Model ----
(***************************************************************************)
(* EmailClassifier (src/app/ai_classifier.py): the classify_email fallback *)
(* chain, the zero-shot score bands and the keyword decision policy.       *)
(*                                                                         *)
(* Texts are TLA+ strings, handled character by character as the Python    *)
(* str methods handle them.  Scores and confidences are Python floats in   *)
(* [0, 1]; they are represented in hundredths (0.70 is 70, 0.85 is 85).    *)
(* Every float the code computes from the sampled inputs (0.6 + 0.1 * n,   *)
(* the thresholds, the scores themselves) is a whole number of hundredths  *)
(* and the float comparisons agree with the integer ones on them.          *)
(***************************************************************************)
EXTENDS Integers, Sequences, FiniteSets, TLC

VARIABLES zero_shot_classifier, text, translator_outcome, model_outcome,
          outcome, result, calls, response,
          classifier, instances, handler

vars == <<zero_shot_classifier, text, translator_outcome, model_outcome,
          outcome, result, calls, response, classifier, instances, handler>>

\* the module global of get_classifier, the number of EmailClassifier objects
\* constructed so far, and the position of each request handler in it
getter_vars == <<classifier, instances, handler>>

\* the record of one classify_email / generate_response call
call_vars == <<text, translator_outcome, model_outcome, outcome, result, calls, response>>

(***************************************************************************)
(* Bounds of the explored inputs.                                          *)
(***************************************************************************)
MaxKw == 5
MaxLen == 12
NumHandlers == 2

(***************************************************************************)
(* Python str helpers.                                                     *)
(***************************************************************************)
CharAt(s, i) == SubSeq(s, i, i)

\* str.split() with no argument splits on runs of whitespace
IsSpace(c) == c \in {" ", "\t", "\n", "\r"}

RECURSIVE Repeat(_, _)
\* s * n
Repeat(s, n) ==
    IF n <= 0 THEN ""
    ELSE IF n = 1 THEN s
    ELSE Repeat(s, n \div 2) \o Repeat(s, n - (n \div 2))

\* the character of ' '.join(s.split()) that position i of s contributes:
\* nothing for whitespace, the character itself otherwise, preceded by the
\* single joining space when it starts a word that is not the first word
JoinSplitPiece(s, i) ==
    IF IsSpace(CharAt(s, i)) THEN ""
    ELSE IF i > 1 /\ IsSpace(CharAt(s, i - 1))
            /\ \E j \in 1..(i - 1) : ~IsSpace(CharAt(s, j))
         THEN " " \o CharAt(s, i)
         ELSE CharAt(s, i)

RECURSIVE JoinSplitRange(_, _, _)
\* the contributions of positions lo..hi, concatenated
JoinSplitRange(s, lo, hi) ==
    IF lo > hi THEN ""
    ELSE IF lo = hi THEN JoinSplitPiece(s, lo)
    ELSE LET mid == (lo + hi) \div 2
         IN JoinSplitRange(s, lo, mid) \o JoinSplitRange(s, mid + 1, hi)

\* ' '.join(s.split())
JoinSplit(s) == JoinSplitRange(s, 1, Len(s))

\* s.strip()
strip(s) ==
    LET solid == {i \in 1..Len(s) : ~IsSpace(CharAt(s, i))}
    IN IF solid = {} THEN ""
       ELSE LET first == CHOOSE i \in solid : \A j \in solid : i <= j
                last == CHOOSE i \in solid : \A j \in solid : j <= i
            IN SubSeq(s, first, last)

\* the lower-case form of each upper-case letter of the alphabet in use
LowerOf ==
    [A |-> "a", B |-> "b", C |-> "c", D |-> "d", E |-> "e", F |-> "f",
     G |-> "g", H |-> "h", I |-> "i", J |-> "j", K |-> "k", L |-> "l",
     M |-> "m", N |-> "n", O |-> "o", P |-> "p", Q |-> "q", R |-> "r",
     S |-> "s", T |-> "t", U |-> "u", V |-> "v", W |-> "w", X |-> "x",
     Y |-> "y", Z |-> "z"]
    @@ ("Á" :> "á") @@ ("À" :> "à") @@ ("Â" :> "â") @@ ("Ã" :> "ã")
    @@ ("É" :> "é") @@ ("Ê" :> "ê") @@ ("Í" :> "í") @@ ("Ó" :> "ó")
    @@ ("Ô" :> "ô") @@ ("Õ" :> "õ") @@ ("Ú" :> "ú") @@ ("Ü" :> "ü")
    @@ ("Ç" :> "ç")

LowerPiece(s, i) ==
    LET c == CharAt(s, i)
    IN IF c \in DOMAIN LowerOf THEN LowerOf[c] ELSE c

RECURSIVE LowerRange(_, _, _)
\* the lower-case forms of positions lo..hi, concatenated
LowerRange(s, lo, hi) ==
    IF lo > hi THEN ""
    ELSE IF lo = hi THEN LowerPiece(s, lo)
    ELSE LET mid == (lo + hi) \div 2
         IN LowerRange(s, lo, mid) \o LowerRange(s, mid + 1, hi)

\* s.lower()
lower(s) == LowerRange(s, 1, Len(s))

\* keyword in s
Contains(keyword, s) ==
    \E i \in 1..(Len(s) - Len(keyword) + 1) :
        SubSeq(s, i, i + Len(keyword) - 1) = keyword

(***************************************************************************)
(* _preprocess_text                                                        *)
(***************************************************************************)
max_length == 512

_preprocess_text(t) ==
    IF t = "" THEN ""
    ELSE LET cleaned == JoinSplit(t)
         IN IF Len(cleaned) > max_length
            THEN SubSeq(cleaned, 1, max_length) \o "..."
            ELSE cleaned

(***************************************************************************)
(* _classify_with_keywords                                                 *)
(***************************************************************************)
productive_keywords ==
    << "suporte", "problema", "erro", "bug", "falha", "ajuda", "dúvida",
       "solicitação", "pedido", "urgente", "prazo", "atualização", "status",
       "pendente", "bloqueado", "reunião", "projeto", "revisão", "análise" >>

unproductive_keywords ==
    << "parabéns", "felicitações", "obrigado", "agradecimento", "natal",
       "aniversário", "feriado", "férias", "convite" >>

\* sum(1 for keyword in keywords if keyword in text_lower)
KeywordCount(keywords, text_lower) ==
    Cardinality({i \in 1..Len(keywords) : Contains(keywords[i], text_lower)})

productive_count(t) == KeywordCount(productive_keywords, lower(t))
unproductive_count(t) == KeywordCount(unproductive_keywords, lower(t))

Min(a, b) == IF a <= b THEN a ELSE b
Max(a, b) == IF a >= b THEN a ELSE b

\* KeywordDecision without the min(...) caps on the confidence
KeywordDecision_NoCap(pc, uc) ==
    IF pc > uc
    THEN [classification |-> "produtivo",
          confidence |-> 60 + (pc * 10),
          reasoning |-> "Contém " \o ToString(pc) \o " palavras-chave produtivas"]
    ELSE IF uc > 0
    THEN [classification |-> "improdutivo",
          confidence |-> 60 + (uc * 10),
          reasoning |-> "Contém " \o ToString(uc) \o " palavras-chave improdutivas"]
    ELSE [classification |-> "produtivo",
          confidence |-> 60,
          reasoning |-> "Classificação padrão para emails empresariais"]

\* KeywordDecision with >= in place of > in the first comparison
KeywordDecision_NonStrict(pc, uc) ==
    IF pc >= uc
    THEN [classification |-> "produtivo",
          confidence |-> Min(85, 60 + (pc * 10)),
          reasoning |-> "Contém " \o ToString(pc) \o " palavras-chave produtivas"]
    ELSE IF uc > 0
    THEN [classification |-> "improdutivo",
          confidence |-> Min(80, 60 + (uc * 10)),
          reasoning |-> "Contém " \o ToString(uc) \o " palavras-chave improdutivas"]
    ELSE [classification |-> "produtivo",
          confidence |-> 60,
          reasoning |-> "Classificação padrão para emails empresariais"]

\* KeywordDecision with the second test comparing the two counts, so that a
\* tie falls through to the default
KeywordDecision_TieDefault(pc, uc) ==
    IF pc > uc
    THEN [classification |-> "produtivo",
          confidence |-> Min(85, 60 + (pc * 10)),
          reasoning |-> "Contém " \o ToString(pc) \o " palavras-chave produtivas"]
    ELSE IF uc > pc
    THEN [classification |-> "improdutivo",
          confidence |-> Min(80, 60 + (uc * 10)),
          reasoning |-> "Contém " \o ToString(uc) \o " palavras-chave improdutivas"]
    ELSE [classification |-> "produtivo",
          confidence |-> 60,
          reasoning |-> "Classificação padrão para emails empresariais"]

\* the decision of _classify_with_keywords on the two counts
KeywordDecision(pc, uc) ==
    IF pc > uc
    THEN [classification |-> "produtivo",
          confidence |-> Min(85, 60 + (pc * 10)),
          reasoning |-> "Contém " \o ToString(pc) \o " palavras-chave produtivas"]
    ELSE IF uc > 0
    THEN [classification |-> "improdutivo",
          confidence |-> Min(80, 60 + (uc * 10)),
          reasoning |-> "Contém " \o ToString(uc) \o " palavras-chave improdutivas"]
    ELSE [classification |-> "produtivo",
          confidence |-> 60,
          reasoning |-> "Classificação padrão para emails empresariais"]

_classify_with_keywords(t) ==
    KeywordDecision(productive_count(t), unproductive_count(t))

\* _fallback_classification ignores its argument
_fallback_classification(t) ==
    [classification |-> "produtivo",
     confidence |-> 50,
     reasoning |-> "Classificação de fallback devido a erro"]

short_text_result ==
    [classification |-> "improdutivo",
     confidence |-> 50,
     reasoning |-> "Texto muito curto para análise"]

\* the gate with the threshold off by one
TooShort_Nine(cleaned_text) == Len(strip(cleaned_text)) < 9

\* the short-text gate: len(cleaned_text.strip()) < 10
TooShort(cleaned_text) == Len(strip(cleaned_text)) < 10

(***************************************************************************)
(* The external collaborators: what one call of each can do.               *)
(***************************************************************************)
NotCalledText == [kind |-> "not_called", value |-> ""]
NotCalledModel == [kind |-> "not_called", value |-> <<>>]

\* GoogleTranslator.translate: raises, or returns a text (an English
\* rendering, or the input unchanged when it is already English)
TranslatorOutcomes(cleaned_text) ==
    { [kind |-> "raise", value |-> ""],
      [kind |-> "return", value |-> "I need urgent support, there is an error in the system"],
      [kind |-> "return", value |-> cleaned_text] }

candidate_labels ==
    << "productive: Emails that require action, response, or have direct operational/financial impact. Examples: 'I need an update on my loan request', 'The system is showing an error', 'When will my card be unlocked?', 'I want to dispute a charge on my bill'. Keywords: status, update, request, urgent, problem, error, payment, invoice, account, transaction, support, how, when, protocol, case, deadline, unlock, resolve, fix, question, help, information, document, contract, change, urgent information, operational change, financial'.",
       "unproductive: Emails with no immediate action required, social/courtesy nature, generic thanks, greetings, or irrelevant to business. Examples: 'Merry Christmas to you and your family', 'Thank you for your great service', 'Just letting you know I received the previous email', 'Promotion: 50% off product X'. Keywords: happy, congratulations, thank you, merry christmas, happy new year, best wishes, just informing, for your information, fyi, no action needed, holiday, birthday, automatic confirmation, spam, irrelevant, outside scope, generic question, social, courtesy, acknowledgment, only for your knowledge'." >>

\* scores the model may give a label, in hundredths
ScoreValues == {0, 10, 50, 51, 55, 60, 70, 71, 82, 100}

\* the pipeline's output for the score pair (p, u): labels and scores
\* sorted by descending score
ZeroShotResult(p, u) ==
    IF p >= u
    THEN [labels |-> <<candidate_labels[1], candidate_labels[2]>>, scores |-> <<p, u>>]
    ELSE [labels |-> <<candidate_labels[2], candidate_labels[1]>>, scores |-> <<u, p>>]

\* outputs that lack the expected labels or scores
MalformedResults ==
    { [scores |-> <<90, 10>>],
      [labels |-> <<candidate_labels[1], candidate_labels[2]>>],
      [labels |-> <<>>, scores |-> <<>>],
      [labels |-> <<"productive", "unproductive">>, scores |-> <<90, 10>>],
      [labels |-> <<candidate_labels[1], candidate_labels[2]>>, scores |-> <<90>>],
      [labels |-> <<candidate_labels[2]>>, scores |-> <<60>>] }

\* self.zero_shot_classifier(...): raises, or returns a result
ModelOutcomes ==
    { [kind |-> "raise", value |-> <<>>] }
    \cup { [kind |-> "return", value |-> ZeroShotResult(p, u)] :
             p \in ScoreValues, u \in ScoreValues }
    \cup { [kind |-> "return", value |-> m] : m \in MalformedResults }

(***************************************************************************)
(* classify_email                                                          *)
(***************************************************************************)
\* dict(zip(labels, scores)).get(key, 0)
ZipGet(labels, scores, key) ==
    LET n == Min(Len(labels), Len(scores))
        hit == {i \in 1..n : labels[i] = key}
    IN IF hit = {} THEN 0
       ELSE scores[CHOOSE i \in hit : \A j \in hit : j <= i]

\* dict(zip(labels, scores))
ZipDict(labels, scores) ==
    LET n == Min(Len(labels), Len(scores))
    IN [l \in {labels[i] : i \in 1..n} |-> ZipGet(labels, scores, l)]

Digit(d) == CharAt("0123456789", d + 1)

\* f"{score:.2f}" of a score in hundredths
Fmt2f(score) ==
    ToString(score \div 100) \o "." \o Digit((score % 100) \div 10) \o Digit(score % 10)

\* the translator call without its own try/except: the exception reaches the
\* outer handler
TranslateStep_Propagates(cleaned_text, tr) ==
    IF tr.kind = "raise"
    THEN [exc |-> TRUE, value |-> ""]
    ELSE [exc |-> FALSE, value |-> tr.value]

\* the try/except around the translator call: the translated text, or the
\* cleaned text when the translator raised
TranslateStep(cleaned_text, tr) ==
    IF tr.kind = "raise"
    THEN [exc |-> FALSE, value |-> cleaned_text]
    ELSE [exc |-> FALSE, value |-> tr.value]

\* the bands without the comparison of the two scores in the first test
ZeroShotBands_NoCompare(prod_score, unprod_score, cleaned_text) ==
    IF prod_score > 70
    THEN [classification |-> "produtivo",
          confidence |-> prod_score,
          reasoning |-> "Zero-shot: score produtivo " \o Fmt2f(prod_score),
          kw |-> <<>>]
    ELSE IF unprod_score > 70
    THEN [classification |-> "improdutivo",
          confidence |-> unprod_score,
          reasoning |-> "Zero-shot: score improdutivo " \o Fmt2f(unprod_score),
          kw |-> <<>>]
    ELSE IF 50 < Max(prod_score, unprod_score) /\ Max(prod_score, unprod_score) <= 70
    THEN LET keyword_result == _classify_with_keywords(cleaned_text)
         IN [classification |-> keyword_result.classification,
             confidence |-> Max(prod_score, unprod_score),
             reasoning |-> "Ambíguo (zero-shot), fallback keywords: " \o keyword_result.reasoning,
             kw |-> << [fn |-> "keywords", arg |-> cleaned_text] >>]
    ELSE [classification |-> "produtivo",
          confidence |-> Max(prod_score, unprod_score),
          reasoning |-> "Score baixo, default produtivo",
          kw |-> <<>>]

\* the bands with the keyword policy's confidence in the ambiguous band
ZeroShotBands_KeywordConfidence(prod_score, unprod_score, cleaned_text) ==
    IF prod_score > 70 /\ prod_score > unprod_score
    THEN [classification |-> "produtivo",
          confidence |-> prod_score,
          reasoning |-> "Zero-shot: score produtivo " \o Fmt2f(prod_score),
          kw |-> <<>>]
    ELSE IF unprod_score > 70
    THEN [classification |-> "improdutivo",
          confidence |-> unprod_score,
          reasoning |-> "Zero-shot: score improdutivo " \o Fmt2f(unprod_score),
          kw |-> <<>>]
    ELSE IF 50 < Max(prod_score, unprod_score) /\ Max(prod_score, unprod_score) <= 70
    THEN LET keyword_result == _classify_with_keywords(cleaned_text)
         IN [classification |-> keyword_result.classification,
             confidence |-> keyword_result.confidence,
             reasoning |-> "Ambíguo (zero-shot), fallback keywords: " \o keyword_result.reasoning,
             kw |-> << [fn |-> "keywords", arg |-> cleaned_text] >>]
    ELSE [classification |-> "produtivo",
          confidence |-> Max(prod_score, unprod_score),
          reasoning |-> "Score baixo, default produtivo",
          kw |-> <<>>]

\* the bands with 0.50 itself counted as ambiguous
ZeroShotBands_LowInclusive(prod_score, unprod_score, cleaned_text) ==
    IF prod_score > 70 /\ prod_score > unprod_score
    THEN [classification |-> "produtivo",
          confidence |-> prod_score,
          reasoning |-> "Zero-shot: score produtivo " \o Fmt2f(prod_score),
          kw |-> <<>>]
    ELSE IF unprod_score > 70
    THEN [classification |-> "improdutivo",
          confidence |-> unprod_score,
          reasoning |-> "Zero-shot: score improdutivo " \o Fmt2f(unprod_score),
          kw |-> <<>>]
    ELSE IF 50 <= Max(prod_score, unprod_score) /\ Max(prod_score, unprod_score) <= 70
    THEN LET keyword_result == _classify_with_keywords(cleaned_text)
         IN [classification |-> keyword_result.classification,
             confidence |-> Max(prod_score, unprod_score),
             reasoning |-> "Ambíguo (zero-shot), fallback keywords: " \o keyword_result.reasoning,
             kw |-> << [fn |-> "keywords", arg |-> cleaned_text] >>]
    ELSE [classification |-> "produtivo",
          confidence |-> Max(prod_score, unprod_score),
          reasoning |-> "Score baixo, default produtivo",
          kw |-> <<>>]

\* the threshold bands over the two scores; kw is the log of keyword calls
ZeroShotBands(prod_score, unprod_score, cleaned_text) ==
    IF prod_score > 70 /\ prod_score > unprod_score
    THEN [classification |-> "produtivo",
          confidence |-> prod_score,
          reasoning |-> "Zero-shot: score produtivo " \o Fmt2f(prod_score),
          kw |-> <<>>]
    ELSE IF unprod_score > 70
    THEN [classification |-> "improdutivo",
          confidence |-> unprod_score,
          reasoning |-> "Zero-shot: score improdutivo " \o Fmt2f(unprod_score),
          kw |-> <<>>]
    ELSE IF 50 < Max(prod_score, unprod_score) /\ Max(prod_score, unprod_score) <= 70
    THEN LET keyword_result == _classify_with_keywords(cleaned_text)
         IN [classification |-> keyword_result.classification,
             confidence |-> Max(prod_score, unprod_score),
             reasoning |-> "Ambíguo (zero-shot), fallback keywords: " \o keyword_result.reasoning,
             kw |-> << [fn |-> "keywords", arg |-> cleaned_text] >>]
    ELSE [classification |-> "produtivo",
          confidence |-> Max(prod_score, unprod_score),
          reasoning |-> "Score baixo, default produtivo",
          kw |-> <<>>]

\* the branch taken when self.zero_shot_classifier is set
ZeroShotStage(cleaned_text, translated_text, zs) ==
    LET call == << [fn |-> "zero_shot", arg |-> translated_text] >>
        zero_shot_result == zs.value
    IN IF zs.kind = "raise"
       THEN [exc |-> TRUE, value |-> <<>>, calls |-> call]
       ELSE IF ~("labels" \in DOMAIN zero_shot_result /\ "scores" \in DOMAIN zero_shot_result)
       THEN [exc |-> TRUE, value |-> <<>>, calls |-> call]  \* KeyError
       ELSE LET labels == zero_shot_result.labels
                scores == zero_shot_result.scores
                prod_score == ZipGet(labels, scores, candidate_labels[1])
                unprod_score == ZipGet(labels, scores, candidate_labels[2])
                band == ZeroShotBands(prod_score, unprod_score, cleaned_text)
            IN [exc |-> FALSE,
                value |-> [classification |-> band.classification,
                           confidence |-> band.confidence,
                           reasoning |-> band.reasoning,
                           translated_text |-> translated_text,
                           zero_shot_scores |-> ZipDict(labels, scores)],
                calls |-> call \o band.kw]

\* the keyword stage run on the translated text instead of the cleaned text
KeywordStage_OnTranslated(cleaned_text, translated_text) ==
    LET kw == _classify_with_keywords(translated_text)
    IN [exc |-> FALSE,
        value |-> [classification |-> kw.classification,
                   confidence |-> kw.confidence,
                   reasoning |-> kw.reasoning,
                   translated_text |-> translated_text],
        calls |-> << [fn |-> "keywords", arg |-> translated_text] >>]

\* the branch taken when self.zero_shot_classifier is None
KeywordStage(cleaned_text, translated_text) ==
    LET kw == _classify_with_keywords(cleaned_text)
    IN [exc |-> FALSE,
        value |-> [classification |-> kw.classification,
                   confidence |-> kw.confidence,
                   reasoning |-> kw.reasoning,
                   translated_text |-> translated_text],
        calls |-> << [fn |-> "keywords", arg |-> cleaned_text] >>]

\* the body of the outer try
TryBody(self, t, tr, zs) ==
    LET cleaned_text == _preprocess_text(t)
    IN IF TooShort(cleaned_text)
       THEN [exc |-> FALSE, value |-> short_text_result, calls |-> <<>>]
       ELSE LET trCall == << [fn |-> "translate", arg |-> cleaned_text] >>
                translated == TranslateStep(cleaned_text, tr)
            IN IF translated.exc
               THEN [exc |-> TRUE, value |-> <<>>, calls |-> trCall]
               ELSE LET stage == IF self # "None"
                                 THEN ZeroShotStage(cleaned_text, translated.value, zs)
                                 ELSE KeywordStage(cleaned_text, translated.value)
                    IN [exc |-> stage.exc, value |-> stage.value,
                        calls |-> trCall \o stage.calls]

\* a handler that lets the exception out of classify_email
ExceptHandler_Reraise(t) ==
    [status |-> "raise", value |-> <<>>]

\* except Exception: return self._fallback_classification(text)
ExceptHandler(t) ==
    [status |-> "return", value |-> _fallback_classification(t)]

classify_email(self, t, tr, zs) ==
    LET body == TryBody(self, t, tr, zs)
    IN IF body.exc
       THEN LET handled == ExceptHandler(t)
            IN [status |-> handled.status, value |-> handled.value, calls |-> body.calls]
       ELSE [status |-> "return", value |-> body.value, calls |-> body.calls]

(***************************************************************************)
(* generate_response                                                       *)
(***************************************************************************)
\* any(word in text_lower for word in words)
AnyIn(words, text_lower) ==
    \E i \in 1..Len(words) : Contains(words[i], text_lower)

\* the keyword groups of _generate_productive_response, in the order tested
productive_groups ==
    << << "urgente", "crítico", "emergência" >>,
       << "erro", "problema", "falha", "bug" >>,
       << "suporte", "ajuda", "dúvida" >>,
       << "status", "atualização", "andamento" >>,
       << "reunião", "meeting", "encontro" >> >>

\* the reply of each group
productive_specific ==
    << "Recebemos sua solicitação urgente e nossa equipe técnica está priorizando sua demanda. Você receberá uma atualização em no máximo 2 horas.",
       "Obrigado por reportar este problema. Nossa equipe técnica está investigando e trabalharemos para resolver o mais rápido possível. Você receberá atualizações sobre o progresso da correção.",
       "Recebemos sua solicitação de suporte. Nossa equipe especializada analisará sua questão e retornará com uma solução detalhada em até 24 horas.",
       "Obrigado por solicitar uma atualização. Verificaremos o status atual de sua demanda e enviaremos um relatório detalhado em breve.",
       "Recebemos sua solicitação de reunião. Verificaremos a disponibilidade da equipe e retornaremos com propostas de horários adequados." >>

\* responses of _generate_productive_response
productive_responses ==
    << "Recebemos sua mensagem e nossa equipe está analisando. Retornaremos com uma resposta detalhada em breve.",
       "Obrigado por entrar em contato. Sua demanda foi direcionada para o setor responsável e você receberá um retorno em até 24 horas.",
       "Confirmamos o recebimento de sua solicitação. Nossa equipe está trabalhando na análise e entrará em contato assim que possível." >>

\* the keyword groups of _generate_unproductive_response, in the order tested
unproductive_groups ==
    << << "parabéns", "felicitações" >>,
       << "obrigado", "agradecimento" >>,
       << "natal", "ano novo", "feriado" >>,
       << "aniversário", "nascimento" >> >>

unproductive_specific ==
    << "Muito obrigado pelas felicitações! Ficamos muito felizes em receber sua mensagem e agradecemos o reconhecimento.",
       "Ficamos muito gratos pelo seu agradecimento! É sempre um prazer poder ajudar e contribuir para o seu sucesso.",
       "Muito obrigado pelas felicitações! Desejamos a você e sua família momentos especiais e muita alegria. Feliz feriado!",
       "Obrigado pelas felicitações de aniversário! Ficamos muito felizes em receber sua mensagem carinhosa." >>

\* responses of _generate_unproductive_response
unproductive_responses ==
    << "Muito obrigado pela mensagem! Ficamos felizes em receber seu contato e agradecemos por pensar em nós.",
       "Agradecemos sua mensagem. É sempre um prazer ouvir de você! Tenha um excelente dia.",
       "Obrigado pelo contato! Sua mensagem é muito importante para nós e ficamos gratos pela atenção." >>

\* the choice by confidence with the two thresholds included in the upper band
ChooseByConfidence_Inclusive(responses, confidence) ==
    IF confidence >= 80 THEN responses[1]
    ELSE IF confidence >= 60 THEN responses[2]
    ELSE responses[3]

\* if confidence > 0.8 ... elif confidence > 0.6 ... else ...
ChooseByConfidence(responses, confidence) ==
    IF confidence > 80 THEN responses[1]
    ELSE IF confidence > 60 THEN responses[2]
    ELSE responses[3]

_generate_productive_response(t, confidence) ==
    LET text_lower == IF t # "" THEN lower(t) ELSE ""
    IN IF AnyIn(productive_groups[1], text_lower) THEN productive_specific[1]
       ELSE IF AnyIn(productive_groups[2], text_lower) THEN productive_specific[2]
       ELSE IF AnyIn(productive_groups[3], text_lower) THEN productive_specific[3]
       ELSE IF AnyIn(productive_groups[4], text_lower) THEN productive_specific[4]
       ELSE IF AnyIn(productive_groups[5], text_lower) THEN productive_specific[5]
       ELSE ChooseByConfidence(productive_responses, confidence)

_generate_unproductive_response(t, confidence) ==
    LET text_lower == IF t # "" THEN lower(t) ELSE ""
    IN IF AnyIn(unproductive_groups[1], text_lower) THEN unproductive_specific[1]
       ELSE IF AnyIn(unproductive_groups[2], text_lower) THEN unproductive_specific[2]
       ELSE IF AnyIn(unproductive_groups[3], text_lower) THEN unproductive_specific[3]
       ELSE IF AnyIn(unproductive_groups[4], text_lower) THEN unproductive_specific[4]
       ELSE ChooseByConfidence(unproductive_responses, confidence)

\* no step of the two helpers raises on a str text, so the except clause of
\* generate_response is not entered
generate_response(classification, t, confidence) ==
    IF classification = "produtivo"
    THEN _generate_productive_response(t, confidence)
    ELSE _generate_unproductive_response(t, confidence)

(***************************************************************************)
(* Input texts.                                                            *)
(***************************************************************************)
RECURSIVE Words(_, _)
\* the first n words, each preceded by a space
Words(words, n) ==
    IF n <= 0 THEN "" ELSE Words(words, n - 1) \o " " \o words[n]

SampleProductive == << "erro", "bug", "prazo", "falha", "ajuda", "status", "pedido" >>
SampleUnproductive == << "natal", "férias", "convite", "feriado", "obrigado", "parabéns", "aniversário" >>

\* a message with i productive and j unproductive keywords
KeywordText(i, j) ==
    "Olá equipe:" \o Words(SampleProductive, i) \o Words(SampleUnproductive, j)

Texts ==
    { "Preciso de suporte urgente, há um erro no sistema",
      "Feliz Natal, muito obrigado pela parceria!",
      "ok",
      "Parabéns pela conquista de todos",
      "  ok   ok \n ok  ",
      "natal     ",
      "\n\nPROBLEMA   URGENTE\t\tno   PROJETO\n",
      "Bom dia,\n\nsegue o relatório.\n",
      "O prazo do projeto termina amanhã",
      "Convite para as férias de todos",
      "Preciso de ajuda com o status da reunião",
      "Qual o status da reunião de amanhã?",
      "Podemos marcar uma reunião amanhã?",
      "Feliz aniversário para toda a equipe",
      "Feliz aniversário e bom feriado a todos",
      Repeat("x", max_length - 3) \o "natal obrigado" }
    \cup { Repeat("a", n) : n \in 0..MaxLen }
    \cup { KeywordText(i, j) : i \in 0..MaxKw, j \in 0..MaxKw }

(***************************************************************************)
(* The state machine.                                                      *)
(***************************************************************************)
\* _initialize_models: the pipeline handle, or None when loading raised
_initialize_models(load_raises) == IF load_raises THEN "None" ELSE "pipeline"

Handlers == 1..NumHandlers

\* a handler that is not inside get_classifier and has not called it yet
IdleHandler == [pc |-> "idle", obj |-> 0, loaded |-> "None", ret |-> 0]

\* the state after the first get_classifier() has constructed the instance
Init ==
    /\ classifier = 1
    /\ instances = 1
    /\ handler = [h \in Handlers |-> IdleHandler]
    /\ \E load_raises \in BOOLEAN : zero_shot_classifier = _initialize_models(load_raises)
    /\ text = ""
    /\ translator_outcome = NotCalledText
    /\ model_outcome = NotCalledModel
    /\ outcome = "none"
    /\ result = <<>>
    /\ calls = <<>>
    /\ response = ""

\* one call of classify_email; the collaborators' outcomes are recorded
\* when the call reached them
ClassifyEmail ==
    /\ outcome = "none"
    /\ \E t \in Texts :
      \E tr \in TranslatorOutcomes(_preprocess_text(t)),
         zs \in IF zero_shot_classifier = "None" THEN {NotCalledModel} ELSE ModelOutcomes :
        \E r \in {classify_email(zero_shot_classifier, t, tr, zs)} :
        LET fns == {r.calls[i].fn : i \in 1..Len(r.calls)}
        IN /\ text' = t
           /\ translator_outcome' = IF "translate" \in fns THEN tr ELSE NotCalledText
           /\ model_outcome' = IF "zero_shot" \in fns THEN zs ELSE NotCalledModel
           /\ outcome' = r.status
           /\ result' = r.value
           /\ calls' = r.calls
           /\ UNCHANGED <<zero_shot_classifier, response>>
           /\ UNCHANGED getter_vars

\* the handler's call of generate_response on the result of classify_email
GenerateResponse ==
    /\ outcome = "return"
    /\ response = ""
    /\ response' = generate_response(result.classification, text, result.confidence)
    /\ UNCHANGED <<zero_shot_classifier, text, translator_outcome, model_outcome,
                   outcome, result, calls>>
    /\ UNCHANGED getter_vars

\* the caller has consumed the result; the next request starts afresh
EndRequest ==
    /\ outcome # "none"
    /\ text' = ""
    /\ translator_outcome' = NotCalledText
    /\ model_outcome' = NotCalledModel
    /\ outcome' = "none"
    /\ result' = <<>>
    /\ calls' = <<>>
    /\ response' = ""
    /\ UNCHANGED zero_shot_classifier
    /\ UNCHANGED getter_vars

Next == ClassifyEmail \/ GenerateResponse \/ EndRequest

Spec == Init /\ [][Next]_vars

(***************************************************************************)
(* get_classifier under concurrent request handlers.  Each handler thread  *)
(* runs get_classifier step by step; a thread switch can fall between the  *)
(* test of the global, the constructor call, the store to the global and   *)
(* the load for the return.                                                *)
(***************************************************************************)
\* the process starts with classifier = None and no instance
InitConc ==
    /\ classifier = 0
    /\ instances = 0
    /\ handler = [h \in Handlers |-> IdleHandler]
    /\ zero_shot_classifier = "None"
    /\ text = ""
    /\ translator_outcome = NotCalledText
    /\ model_outcome = NotCalledModel
    /\ outcome = "none"
    /\ result = <<>>
    /\ calls = <<>>
    /\ response = ""

\* if classifier is None:
TestGlobal(h) ==
    /\ handler[h].pc = "idle"
    /\ handler' = [handler EXCEPT ![h].pc =
                      IF classifier = 0 THEN "construct" ELSE "return"]
    /\ UNCHANGED <<classifier, instances, zero_shot_classifier>>
    /\ UNCHANGED call_vars

\* EmailClassifier(): a new object, its model loaded or not
Construct(h) ==
    /\ handler[h].pc = "construct"
    /\ \E load_raises \in BOOLEAN :
          handler' = [handler EXCEPT ![h].pc = "store",
                                     ![h].obj = instances + 1,
                                     ![h].loaded = _initialize_models(load_raises)]
    /\ instances' = instances + 1
    /\ UNCHANGED <<classifier, zero_shot_classifier>>
    /\ UNCHANGED call_vars

\* classifier = <the new object>
StoreGlobal(h) ==
    /\ handler[h].pc = "store"
    /\ classifier' = handler[h].obj
    /\ zero_shot_classifier' = handler[h].loaded
    /\ handler' = [handler EXCEPT ![h].pc = "return"]
    /\ UNCHANGED instances
    /\ UNCHANGED call_vars

\* return classifier
ReturnGlobal(h) ==
    /\ handler[h].pc = "return"
    /\ handler' = [handler EXCEPT ![h].pc = "done", ![h].ret = classifier]
    /\ UNCHANGED <<classifier, instances, zero_shot_classifier>>
    /\ UNCHANGED call_vars

\* the request is over; the thread will serve another one
FinishRequest(h) ==
    /\ handler[h].pc = "done"
    /\ handler' = [handler EXCEPT ![h].pc = "idle"]
    /\ UNCHANGED <<classifier, instances, zero_shot_classifier>>
    /\ UNCHANGED call_vars

NextConc ==
    \E h \in Handlers :
        \/ TestGlobal(h)
        \/ Construct(h)
        \/ StoreGlobal(h)
        \/ ReturnGlobal(h)
        \/ FinishRequest(h)

SpecConc == InitConc /\ [][NextConc]_vars

(***************************************************************************)
(* Properties.                                                             *)
(***************************************************************************)
Called == outcome # "none"
Cleaned == _preprocess_text(text)
Core(r) == <<r.classification, r.confidence, r.reasoning>>
ModelReturned(p, u) == model_outcome = [kind |-> "return", value |-> ZeroShotResult(p, u)]
Invoked(fn) == \E i \in 1..Len(calls) : calls[i].fn = fn
RaiseOutcome == [kind |-> "raise", value |-> <<>>]
EnglishOutcome ==
    [kind |-> "return", value |-> "I need urgent support, there is an error in the system"]

\* C1: classify_email never raises and always returns a result whose
\* classification is 'produtivo' or 'improdutivo' with a non-empty reasoning,
\* whatever the model handle, the translator and the model call do.
C1_AlwaysReturnsLabel ==
    Called =>
        /\ outcome = "return"
        /\ result.classification \in {"produtivo", "improdutivo"}
        /\ result.reasoning # ""

C1_Witness ==
    /\ outcome = "return"
    /\ zero_shot_classifier = "pipeline"
    /\ translator_outcome.kind = "raise"
    /\ model_outcome.kind = "raise"

\* C2: a text whose cleaned form is shorter than 10 characters is
\* Unproductive with confidence 0.5 and the short-text reasoning, and the
\* call returns before the translator, the model or the keyword policy runs.
C2_ShortTextGate ==
    (Called /\ Len(Cleaned) < 10) =>
        /\ outcome = "return"
        /\ Core(result) = <<"improdutivo", 50, "Texto muito curto para análise">>
        /\ calls = <<>>

C2_Witness ==
    /\ Called
    /\ zero_shot_classifier = "pipeline"
    /\ Len(text) >= 10
    /\ Len(Cleaned) < 10
    /\ result.classification = "improdutivo"

\* C3: when the loaded model's call raises, the result equals the keyword
\* policy's result for the cleaned text.
C3_ModelFailureUsesKeywordPolicy ==
    (Called /\ model_outcome.kind = "raise") =>
        /\ outcome = "return"
        /\ Core(result) = Core(_classify_with_keywords(Cleaned))

\* C4: the returned confidence lies in [0.0, 1.0] on every path.
C4_ConfidenceInUnitInterval ==
    (Called /\ outcome = "return") =>
        /\ 0 <= result.confidence
        /\ result.confidence <= 100

C4_Witness ==
    /\ Called
    /\ zero_shot_classifier = "None"
    /\ Invoked("keywords")
    /\ result.confidence = 85
    /\ productive_count(Cleaned) = MaxKw

\* C5: with scores (p, u): p > 0.70 and p > u gives Productive with
\* confidence p; otherwise u > 0.70 gives Unproductive with confidence u;
\* the keyword policy is not consulted in these two bands.
C5_HighScoreBands ==
    \A p \in ScoreValues, u \in ScoreValues :
        (Called /\ ModelReturned(p, u)) =>
            /\ (p > 70 /\ p > u) =>
                   /\ result.classification = "produtivo"
                   /\ result.confidence = p
            /\ (~(p > 70 /\ p > u) /\ u > 70) =>
                   /\ result.classification = "improdutivo"
                   /\ result.confidence = u
            /\ (p > 70 \/ u > 70) => ~Invoked("keywords")

C5_Witness ==
    /\ Called
    /\ ModelReturned(71, 82)
    /\ result.classification = "improdutivo"
    /\ result.confidence = 82
    /\ productive_count(Cleaned) > unproductive_count(Cleaned)

\* C6: with 0.50 < max(p, u) <= 0.70 the label is the keyword policy's label
\* for the cleaned text, the confidence is max(p, u), and the reasoning
\* records the ambiguity together with the keyword policy's reasoning.
C6_AmbiguousBandDelegates ==
    \A p \in ScoreValues, u \in ScoreValues :
        (Called /\ ModelReturned(p, u) /\ 50 < Max(p, u) /\ Max(p, u) <= 70) =>
            LET kw == _classify_with_keywords(Cleaned)
            IN /\ result.classification = kw.classification
               /\ result.confidence = Max(p, u)
               /\ Contains("Ambíguo", result.reasoning)
               /\ Contains(kw.reasoning, result.reasoning)

C6_Witness ==
    /\ Called
    /\ ModelReturned(60, 55)
    /\ text = "Parabéns pela conquista de todos"
    /\ result.classification = "improdutivo"
    /\ result.confidence = 60
    /\ _classify_with_keywords(Cleaned).confidence = 70

\* C7: the keyword policy, on counts (pc, uc): pc > uc gives Productive with
\* confidence min(0.85, 0.6 + 0.1 pc); else uc > 0 gives Unproductive with
\* confidence min(0.80, 0.6 + 0.1 uc); else Productive with confidence 0.60;
\* the default rule is reached exactly when both counts are zero.
C7_KeywordPolicyRules ==
    (Called /\ zero_shot_classifier = "None" /\ Invoked("keywords")) =>
        LET pc == productive_count(Cleaned)
            uc == unproductive_count(Cleaned)
            default == "Classificação padrão para emails empresariais"
        IN /\ pc > uc =>
                 /\ result.classification = "produtivo"
                 /\ result.confidence = Min(85, 60 + 10 * pc)
           /\ (~(pc > uc) /\ uc > 0) =>
                 /\ result.classification = "improdutivo"
                 /\ result.confidence = Min(80, 60 + 10 * uc)
           /\ (~(pc > uc) /\ ~(uc > 0)) =>
                 /\ result.classification = "produtivo"
                 /\ result.confidence = 60
           /\ (result.reasoning = default) <=> (pc = 0 /\ uc = 0)

C7_Witness ==
    /\ Called
    /\ zero_shot_classifier = "None"
    /\ Invoked("keywords")
    /\ result.reasoning = "Classificação padrão para emails empresariais"
    /\ productive_count(Cleaned) = 0
    /\ unproductive_count(Cleaned) = 0

\* C8: with no model handle, a text of at least 10 cleaned characters gets the
\* keyword policy's label, confidence and reasoning for the cleaned text,
\* whether or not translation succeeded; 'suporte', 'urgente', 'erro' with no
\* unproductive cue is Productive, 'natal' and 'obrigado' with no productive
\* cue is Unproductive.
C8_NoModelUsesKeywordPolicy ==
    (Called /\ zero_shot_classifier = "None" /\ Len(Cleaned) >= 10) =>
        LET tl == lower(Cleaned)
        IN /\ outcome = "return"
           /\ Core(result) = Core(_classify_with_keywords(Cleaned))
           /\ (/\ Contains("suporte", tl) /\ Contains("urgente", tl) /\ Contains("erro", tl)
               /\ unproductive_count(Cleaned) = 0)
                 => result.classification = "produtivo"
           /\ (/\ Contains("natal", tl) /\ Contains("obrigado", tl)
               /\ productive_count(Cleaned) = 0)
                 => result.classification = "improdutivo"

C8_Witness ==
    /\ Called
    /\ zero_shot_classifier = "None"
    /\ text = "Feliz Natal, muito obrigado pela parceria!"
    /\ translator_outcome = EnglishOutcome
    /\ result.classification = "improdutivo"
    /\ result.reasoning = "Contém 2 palavras-chave improdutivas"

\* C9: when the translator raises, the call goes on with the cleaned text as
\* the model input, the later stages run as they do after a successful
\* translation, and the ultimate fallback is not returned on that account.
C9_TranslatorFailureTolerated ==
    (Called /\ translator_outcome.kind = "raise") =>
        /\ outcome = "return"
        /\ \A i \in 1..Len(calls) :
               calls[i].fn = "zero_shot" => calls[i].arg = Cleaned
        /\ "translated_text" \in DOMAIN result => result.translated_text = Cleaned
        /\ zero_shot_classifier = "pipeline" => Invoked("zero_shot")
        /\ zero_shot_classifier = "None" => Invoked("keywords")
        /\ Core(result) =
             Core(classify_email(zero_shot_classifier, text, EnglishOutcome, model_outcome).value)
        /\ Core(result) = <<"produtivo", 50, "Classificação de fallback devido a erro">>
             => \/ model_outcome.kind = "raise"
                \/ /\ model_outcome.kind = "return"
                   /\ ~({"labels", "scores"} \subseteq DOMAIN model_outcome.value)

C9_Witness ==
    /\ Called
    /\ translator_outcome.kind = "raise"
    /\ ModelReturned(82, 10)
    /\ result.classification = "produtivo"
    /\ result.confidence = 82
    /\ result.translated_text = Cleaned

\* C10: a model output that lacks the expected labels or scores is handled
\* as an exception of the model call is: the result is the same.
C10_MalformedSameAsException ==
    (Called /\ model_outcome.kind = "return" /\ model_outcome.value \in MalformedResults) =>
        Core(result) =
            Core(classify_email(zero_shot_classifier, text, translator_outcome, RaiseOutcome).value)

\* C13: with both scores <= 0.50 the result is Productive with confidence
\* max(p, u) and the low-score reasoning; that branch is reached only then,
\* and every score pair falls in exactly one of the four bands.
C13_LowScoreDefault ==
    \A p \in ScoreValues, u \in ScoreValues :
        (Called /\ ModelReturned(p, u)) =>
            LET low == result.reasoning = "Score baixo, default produtivo"
                ambiguous == Contains("Ambíguo (zero-shot)", result.reasoning)
                highProd == Contains("Zero-shot: score produtivo", result.reasoning)
                highUnprod == Contains("Zero-shot: score improdutivo", result.reasoning)
            IN /\ (p <= 50 /\ u <= 50) =>
                     /\ result.classification = "produtivo"
                     /\ result.confidence = Max(p, u)
                     /\ low
               /\ low => (p <= 50 /\ u <= 50)
               /\ highProd <=> (p > 70 /\ p > u)
               /\ highUnprod <=> (~(p > 70 /\ p > u) /\ u > 70)
               /\ ambiguous <=> (50 < Max(p, u) /\ Max(p, u) <= 70)
               /\ Cardinality({b \in {"low", "ambiguous", "highProd", "highUnprod"} :
                                 \/ b = "low" /\ low
                                 \/ b = "ambiguous" /\ ambiguous
                                 \/ b = "highProd" /\ highProd
                                 \/ b = "highUnprod" /\ highUnprod}) = 1

C13_Witness ==
    /\ Called
    /\ ModelReturned(50, 10)
    /\ result.classification = "produtivo"
    /\ result.confidence = 50
    /\ result.reasoning = "Score baixo, default produtivo"
    /\ unproductive_count(Cleaned) > productive_count(Cleaned)

\* C14 as stated: equal non-zero keyword counts fall through to the
\* default-productive branch (Productive, 0.60, default reasoning).
C14_TieFallsToDefault ==
    (Called /\ zero_shot_classifier = "None" /\ Invoked("keywords")) =>
        LET pc == productive_count(Cleaned)
            uc == unproductive_count(Cleaned)
        IN (pc = uc /\ pc > 0) =>
              Core(result) = <<"produtivo", 60, "Classificação padrão para emails empresariais">>

\* C14 as amended: equal non-zero keyword counts are decided by the second
\* rule: Unproductive, confidence min(0.80, 0.6 + 0.1 uc), reasoning citing
\* the unproductive count; the default branch is not taken.
C14_TieIsUnproductive ==
    (Called /\ zero_shot_classifier = "None" /\ Invoked("keywords")) =>
        LET pc == productive_count(Cleaned)
            uc == unproductive_count(Cleaned)
        IN (pc = uc /\ pc > 0) =>
              Core(result) = <<"improdutivo", Min(80, 60 + 10 * uc),
                               "Contém " \o ToString(uc) \o " palavras-chave improdutivas">>

C14_Witness ==
    /\ Called
    /\ zero_shot_classifier = "None"
    /\ Invoked("keywords")
    /\ productive_count(Cleaned) = 1
    /\ unproductive_count(Cleaned) = 1
    /\ result.classification = "improdutivo"
    /\ result.confidence = 70

\* the first group, in the order tested, with a word in the text; 0 if none
FirstGroup(groups, text_lower) ==
    LET hit == {g \in 1..Len(groups) : AnyIn(groups[g], text_lower)}
    IN IF hit = {} THEN 0 ELSE CHOOSE g \in hit : \A h \in hit : g <= h

\* C12: generate_response returns, for Productive, the reply of the first
\* group present in the order urgent, error, support, status, meeting; for
\* Unproductive the first of congratulations, thanks, holiday, birthday; with
\* no group present, the generic reply of the confidence band: > 0.8 the
\* first, else > 0.6 the second, else the third (0.8 and 0.6 fall lower).
C12_ResponseSelection ==
    (outcome = "return" /\ response # "") =>
        LET tl == lower(text)
            conf == result.confidence
            band == IF conf > 80 THEN 1 ELSE IF conf > 60 THEN 2 ELSE 3
            gp == FirstGroup(productive_groups, tl)
            gu == FirstGroup(unproductive_groups, tl)
        IN /\ (result.classification = "produtivo" /\ gp > 0)
                 => response = productive_specific[gp]
           /\ (result.classification = "produtivo" /\ gp = 0)
                 => response = productive_responses[band]
           /\ (result.classification = "improdutivo" /\ gu > 0)
                 => response = unproductive_specific[gu]
           /\ (result.classification = "improdutivo" /\ gu = 0)
                 => response = unproductive_responses[band]
           /\ (conf = 80 /\ gp = 0 /\ result.classification = "produtivo")
                 => response = productive_responses[2]
           /\ (conf = 60 /\ gu = 0 /\ result.classification = "improdutivo")
                 => response = unproductive_responses[3]

C12_Witness ==
    /\ outcome = "return"
    /\ text = "O prazo do projeto termina amanhã"
    /\ zero_shot_classifier = "None"
    /\ result.classification = "produtivo"
    /\ result.confidence = 80
    /\ response = productive_responses[2]

\* C11: across any interleaving of concurrent handlers calling
\* get_classifier(), the EmailClassifier is constructed at most once and
\* every call returns that same instance.
C11_SingleInstance ==
    /\ instances <= 1
    /\ \A h1 \in Handlers, h2 \in Handlers :
           (handler[h1].ret # 0 /\ handler[h2].ret # 0)
               => handler[h1].ret = handler[h2].ret

====
